---- MODULE Spec2Model ----
(***************************************************************************)
(* Layered cache of package aecache: combinedCache over memoryCache and    *)
(* datastoreCache tiers.  Time is an integer clock; a time.Duration is an  *)
(* integer number of clock units.                                          *)
(***************************************************************************)
EXTENDS Integers, Sequences, FiniteSets, TLC

\* ---- bounds of the model ----
MaxTiers == 3
NumThreads == 2
MaxTime == 3
MaxTTL == 2
MaxCalls == 2
MaxMemCalls == 3
MaxOps == 2
MaxConnCalls == 3

Threads == 1..NumThreads
Keys == {"k1"}
Values == {"v1", "big"}
Kinds == {"memory", "datastore"}
TTLs == 0..MaxTTL
MemKeys == {"k1", "k2"}
MemTTLs == (0 - 1)..MaxTTL

\* ---- errors and zero values ----
Nil == "nil"
ErrCacheMiss == "cache: miss"
ErrTooBig == "cache: too big"
ErrConnect == "datastore: connect failed"
ErrBackend == "datastore: backend error"
ErrDelete == "datastore: delete failed"
NoValue == "nil bytes"
ZeroTime == 0
StartTime == ZeroTime + 1

\* len(value) >= 1<<20
TooBig == 1048576
ValueLen(v) == IF v = "big" THEN TooBig ELSE 2

\* ---- Go maps ----
EmptyMap == [x \in {} |-> 0]
Put(m, k, v) == [x \in (DOMAIN m) \cup {k} |-> IF x = k THEN v ELSE m[x]]
Delete(m, k) == [x \in (DOMAIN m) \ {k} |-> m[x]]

\* a comparison that holds at the instant too
NotAfter(t, u) == t <= u

\* time.Time.Before
Before(t, u) == t < u

VARIABLES caches, now, th, calls

vars == <<caches, now, th, calls>>

\* what a tier operation returns, with the tier's state after it
Result(c, v, e, err) == [cache |-> c, value |-> v, expires |-> e, err |-> err]

\* m is the holder of the tier's sync.Mutex, 0 when it is unlocked
newCache(kind) ==
  [kind |-> kind, values |-> EmptyMap, expires |-> EmptyMap, connected |-> FALSE,
   m |-> 0]

\* a Set that stores a zero expiration too
memoryCacheSetZero(c, key, value, expiration, t) ==
  IF expiration < 0
    THEN Result(c, NoValue, ZeroTime, Nil)
    ELSE Result([c EXCEPT !.values = Put(@, key, value),
                          !.expires = Put(@, key, t + expiration)],
                NoValue, ZeroTime, Nil)

\* a Set that keeps the entry a key already has
memoryCacheSetIfAbsent(c, key, value, expiration, t) ==
  IF expiration <= 0 \/ key \in DOMAIN c.values
    THEN Result(c, NoValue, ZeroTime, Nil)
    ELSE Result([c EXCEPT !.values = Put(@, key, value),
                          !.expires = Put(@, key, t + expiration)],
                NoValue, ZeroTime, Nil)

\* ---- memoryCache ----
memoryCacheSet(c, key, value, expiration, t) ==
  IF expiration <= 0
    THEN Result(c, NoValue, ZeroTime, Nil)
    ELSE Result([c EXCEPT !.values = Put(@, key, value),
                          !.expires = Put(@, key, t + expiration)],
                NoValue, ZeroTime, Nil)

memoryCacheGet(c, key, t) ==
  IF key \notin DOMAIN c.values \/ key \notin DOMAIN c.expires
    THEN Result(c, NoValue, ZeroTime, ErrCacheMiss)
    ELSE IF Before(c.expires[key], t)
      THEN Result([c EXCEPT !.values = Delete(@, key),
                            !.expires = Delete(@, key)],
                  NoValue, ZeroTime, ErrCacheMiss)
      ELSE Result(c, c.values[key], c.expires[key], Nil)

memoryCacheClean(c, t) ==
  LET expired == {k \in DOMAIN c.expires : Before(c.expires[k], t)}
  IN Result([c EXCEPT !.values = [x \in (DOMAIN @) \ expired |-> @[x]],
                      !.expires = [x \in (DOMAIN @) \ expired |-> @[x]]],
            NoValue, ZeroTime, Nil)

\* ---- datastoreCache ----
\* fail names the backend call that fails during the operation, if any
Faults == {"none", "connect", "rpc", "delete"}

connectFails(c, fail) == ~c.connected /\ fail = "connect"

\* a size check that lets a value of exactly 1 MiB through
IsTooBigAbove(value) == ValueLen(value) > TooBig

\* Set: "if len(value) >= 1<<20"
IsTooBig(value) == ValueLen(value) >= TooBig

datastoreCacheSet(c, key, value, expiration, t, fail) ==
  IF expiration <= 0 THEN Result(c, NoValue, ZeroTime, Nil)
  ELSE IF IsTooBig(value) THEN Result(c, NoValue, ZeroTime, ErrTooBig)
  ELSE IF connectFails(c, fail) THEN Result(c, NoValue, ZeroTime, ErrConnect)
  ELSE LET c1 == [c EXCEPT !.connected = TRUE]
       IN IF fail = "rpc"
            THEN Result(c1, NoValue, ZeroTime, ErrBackend)
            ELSE Result([c1 EXCEPT !.values = Put(@, key, value),
                                   !.expires = Put(@, key, t + expiration)],
                        NoValue, ZeroTime, Nil)

\* a failed Delete reported as a miss
DeleteErrorAsMiss(err) == ErrCacheMiss

\* Get: "if err := a.client.Delete(ctx, k); err != nil { return nil, time.Time{}, err }"
DeleteError(err) == err

datastoreCacheGet(c, key, t, fail) ==
  IF connectFails(c, fail) THEN Result(c, NoValue, ZeroTime, ErrConnect)
  ELSE LET c1 == [c EXCEPT !.connected = TRUE]
       IN IF fail = "rpc" THEN Result(c1, NoValue, ZeroTime, ErrBackend)
          ELSE IF key \notin DOMAIN c1.values
            THEN Result(c1, NoValue, ZeroTime, ErrCacheMiss)
          ELSE IF Before(c1.expires[key], t)
            THEN IF fail = "delete"
                   THEN Result(c1, NoValue, ZeroTime, DeleteError(ErrDelete))
                   ELSE Result([c1 EXCEPT !.values = Delete(@, key),
                                          !.expires = Delete(@, key)],
                               NoValue, ZeroTime, ErrCacheMiss)
          ELSE Result(c1, c1.values[key], c1.expires[key], Nil)

datastoreCacheClean(c, t, fail) ==
  IF connectFails(c, fail) THEN Result(c, NoValue, ZeroTime, ErrConnect)
  ELSE LET c1 == [c EXCEPT !.connected = TRUE]
           keys == {k \in DOMAIN c1.expires : Before(c1.expires[k], t)}
       IN IF fail = "rpc" THEN Result(c1, NoValue, ZeroTime, ErrBackend)
          ELSE IF keys # {} /\ fail = "delete"
            THEN Result(c1, NoValue, ZeroTime, ErrDelete)
          ELSE Result([c1 EXCEPT !.values = [x \in (DOMAIN @) \ keys |-> @[x]],
                                 !.expires = [x \in (DOMAIN @) \ keys |-> @[x]]],
                      NoValue, ZeroTime, Nil)

\* ---- the Cache interface: dynamic dispatch on the tier ----
FaultsOf(c) == IF c.kind = "memory" THEN {"none"} ELSE Faults

CacheSet(c, key, value, expiration, t, fail) ==
  IF c.kind = "memory"
    THEN memoryCacheSet(c, key, value, expiration, t)
    ELSE datastoreCacheSet(c, key, value, expiration, t, fail)

CacheGet(c, key, t, fail) ==
  IF c.kind = "memory"
    THEN memoryCacheGet(c, key, t)
    ELSE datastoreCacheGet(c, key, t, fail)

CacheClean(c, t, fail) ==
  IF c.kind = "memory"
    THEN memoryCacheClean(c, t)
    ELSE datastoreCacheClean(c, t, fail)

\* a hit test that never succeeds
IsHitNever(err) == FALSE

\* ---- combinedCache: the decisions of its code ----
\* Get: "if err == nil" after a[0].Get
IsHit(err) == err = Nil

\* every error treated as a miss
IsFatalNever(err) == FALSE

\* Get: "if err != ErrCacheMiss" after a[0].Get
IsFatal(err) == err # ErrCacheMiss

\* a refill that passes the expiry itself as the ttl
RefillTTLAbsolute(expires, t) == expires

\* Get: expires.Sub(time.Now())
RefillTTL(expires, t) == expires - t

\* a refill whose error is dropped
RefillFailureDropped(value, expires, err) ==
  [value |-> value, expires |-> expires, err |-> Nil]

\* Get: what is returned when a[0].Set fails in the refill
RefillFailure(value, expires, err) ==
  [value |-> NoValue, expires |-> ZeroTime, err |-> err]

\* a failure of the lower tiers reported as a miss
LookupFailureAsMiss(value, expires, err) ==
  [value |-> value, expires |-> expires, err |-> ErrCacheMiss]

\* Get: what is returned when the lookup of a[1:] fails
LookupFailure(value, expires, err) ==
  [value |-> value, expires |-> expires, err |-> err]

\* a refill that reaches the fastest tier only
RefillLevelTopOnly(idx) == 1

\* Get: the level whose a[0].Set runs when the level idx returns a hit,
\* that is the caller of combinedCache(a[1:]).Get
RefillLevel(idx) == idx - 1

\* an empty combination that returns no error
EmptyGetNoError == [value |-> NoValue, expires |-> ZeroTime, err |-> Nil]

\* Get: "if len(a) == 0 { return nil, time.Time{}, ErrCacheMiss }"
EmptyGet == [value |-> NoValue, expires |-> ZeroTime, err |-> ErrCacheMiss]

\* Get: a failure returned at a level passes through its n enclosing levels
RECURSIVE Propagate(_, _)
Propagate(n, res) ==
  IF n = 0 THEN res
  ELSE Propagate(n - 1, LookupFailure(res.value, res.expires, res.err))

\* a Set that goes on after a tier failed
SetAbortsNever(err) == FALSE

\* Set: "if err := e.Set(...); err != nil { return err }"
SetAborts(err) == err # Nil

\* strings.Join(errors, "\n")
RECURSIVE Join(_)
Join(errors) ==
  IF Len(errors) = 0 THEN ""
  ELSE IF Len(errors) = 1 THEN errors[1]
  ELSE errors[1] \o "\n" \o Join(Tail(errors))

\* fmt.Errorf("cache: %v error(s)\n%v", len(errors), strings.Join(errors, "\n"))
Errorf(errors) == "cache: " \o ToString(Len(errors)) \o " error(s)\n" \o Join(errors)

\* Clean: the error returned for the collected errors
CleanError(errors) == IF Len(errors) > 0 THEN Errorf(errors) ELSE Nil

\* a Clean that remembers its last error only
CollectErrorLast(errors, err) == IF err # Nil THEN <<err>> ELSE errors

\* Clean: "errors = append(errors, err.Error())"
CollectError(errors, err) == IF err # Nil THEN Append(errors, err) ELSE errors

\* ---- callers ----
IdleThread ==
  [pc |-> "idle", op |-> "none", key |-> "k1", value |-> NoValue,
   expiration |-> 0, idx |-> 0, rvalue |-> NoValue, rexpires |-> ZeroTime,
   err |-> Nil, ttl |-> 0, errors |-> <<>>,
   \* history of the call, kept for the properties
   log |-> <<>>, mid |-> <<>>, solo |-> TRUE]

\* one call of a tier: what was passed (or returned) and the error returned
LogEntry(op, tier, value, expires, ttl, err) ==
  [op |-> op, tier |-> tier, value |-> value, expires |-> expires,
   ttl |-> ttl, err |-> err]

\* another caller's operation on the tiers is observed by every call in flight
Disturbed(r) ==
  IF r.pc = "idle" THEN r
  ELSE [r EXCEPT !.solo = FALSE]

Returned(r) == [r EXCEPT !.pc = "done"]

Returns(r, res) ==
  Returned([r EXCEPT !.rvalue = res.value, !.rexpires = res.expires, !.err = res.err])

Step(t, r) == [u \in Threads |-> IF u = t THEN r ELSE Disturbed(th[u])]

Init ==
  /\ caches \in UNION {[1..n -> {newCache(k) : k \in Kinds}] : n \in 0..MaxTiers}
  /\ now = StartTime
  /\ calls = 0
  /\ th = [t \in Threads |-> IdleThread]

\* a caller enters combinedCache.Get, Set or Clean
Call(t) ==
  /\ th[t].pc \in {"idle", "done"}
  /\ calls < MaxCalls
  /\ \E op \in {"Get", "Set", "Clean"}, key \in Keys, value \in Values, ttl \in TTLs :
       /\ op = "Clean" => key = "k1"
       /\ op # "Set" => (value = "v1" /\ ttl = 0)
       /\ th' = [th EXCEPT ![t] =
                   [IdleThread EXCEPT !.pc = "run", !.op = op, !.key = key,
                      !.value = IF op = "Set" THEN value ELSE NoValue,
                      !.expiration = ttl, !.idx = 1]]
  /\ calls' = calls + 1
  /\ UNCHANGED <<caches, now>>

\* combinedCache.Set: one iteration of the loop over the tiers
SetStep(t) ==
  LET r == th[t] IN
  /\ r.pc = "run" /\ r.op = "Set"
  /\ IF r.idx > Len(caches)
       THEN /\ th' = Step(t, Returned([r EXCEPT !.err = Nil]))
            /\ UNCHANGED caches
       ELSE \E fail \in FaultsOf(caches[r.idx]) :
              LET res == CacheSet(caches[r.idx], r.key, r.value, r.expiration, now, fail)
                  r1 == [r EXCEPT !.log = Append(@, LogEntry("Set", r.idx, r.value, ZeroTime, r.expiration, res.err))]
              IN /\ caches' = [caches EXCEPT ![r.idx] = res.cache]
                 /\ th' = Step(t,
                      IF SetAborts(res.err) THEN Returned([r1 EXCEPT !.err = res.err])
                      ELSE IF r.idx = Len(caches) THEN Returned([r1 EXCEPT !.err = Nil])
                      ELSE [r1 EXCEPT !.idx = r.idx + 1])
  /\ UNCHANGED <<now, calls>>

\* combinedCache.Get: a[0].Get of the current level, or the empty base case
GetStep(t) ==
  LET r == th[t] IN
  /\ r.pc = "run" /\ r.op = "Get"
  /\ IF r.idx > Len(caches)
       THEN /\ th' = Step(t, Returns(r, Propagate(r.idx - 1, EmptyGet)))
            /\ UNCHANGED caches
       ELSE \E fail \in FaultsOf(caches[r.idx]) :
              LET res == CacheGet(caches[r.idx], r.key, now, fail)
                  r1 == [r EXCEPT !.log = Append(@, LogEntry("Get", r.idx, res.value, res.expires, 0, res.err)),
                                  !.mid = IF r.idx = 1 THEN <<res.cache>> ELSE @]
              IN /\ caches' = [caches EXCEPT ![r.idx] = res.cache]
                 /\ th' = Step(t,
                      IF IsHit(res.err)
                        THEN LET r2 == [r1 EXCEPT !.rvalue = res.value,
                                                  !.rexpires = res.expires, !.err = Nil]
                             IN IF r.idx = 1 THEN Returned(r2)
                                ELSE [r2 EXCEPT !.idx = RefillLevel(r.idx), !.pc = "ttl"]
                      ELSE IF IsFatal(res.err)
                        THEN Returns(r1, Propagate(r.idx - 1,
                               [value |-> NoValue, expires |-> ZeroTime, err |-> res.err]))
                      ELSE [r1 EXCEPT !.idx = r.idx + 1])
  /\ UNCHANGED <<now, calls>>

\* combinedCache.Get: expires.Sub(time.Now()), the argument of the refill
GetTTL(t) ==
  LET r == th[t] IN
  /\ r.pc = "ttl"
  /\ th' = [th EXCEPT ![t] = [r EXCEPT !.ttl = RefillTTL(r.rexpires, now), !.pc = "refill"]]
  /\ UNCHANGED <<caches, now, calls>>

\* combinedCache.Get: a[0].Set of the current level, then its return
GetRefill(t) ==
  LET r == th[t] IN
  /\ r.pc = "refill"
  /\ \E fail \in FaultsOf(caches[r.idx]) :
       LET res == CacheSet(caches[r.idx], r.key, r.rvalue, r.ttl, now, fail)
           r1 == [r EXCEPT !.log = Append(@, LogEntry("Set", r.idx, r.rvalue, ZeroTime, r.ttl, res.err))]
       IN /\ caches' = [caches EXCEPT ![r.idx] = res.cache]
          /\ th' = Step(t,
               IF res.err # Nil
                 THEN Returns(r1, Propagate(r.idx - 1,
                        RefillFailure(r.rvalue, r.rexpires, res.err)))
               ELSE IF r.idx = 1 THEN Returned(r1)
               ELSE [r1 EXCEPT !.idx = RefillLevel(r.idx), !.pc = "ttl"])
  /\ UNCHANGED <<now, calls>>

\* combinedCache.Clean: one iteration of the loop, and the return after the last
CleanStep(t) ==
  LET r == th[t] IN
  /\ r.pc = "run" /\ r.op = "Clean"
  /\ IF r.idx > Len(caches)
       THEN /\ th' = Step(t, Returned([r EXCEPT !.err = CleanError(r.errors)]))
            /\ UNCHANGED caches
       ELSE \E fail \in FaultsOf(caches[r.idx]) :
              LET res == CacheClean(caches[r.idx], now, fail)
                  r1 == [r EXCEPT !.log = Append(@, LogEntry("Clean", r.idx, NoValue, ZeroTime, 0, res.err)),
                                  !.errors = CollectError(@, res.err)]
              IN /\ caches' = [caches EXCEPT ![r.idx] = res.cache]
                 /\ th' = Step(t,
                      IF r.idx = Len(caches)
                        THEN Returned([r1 EXCEPT !.err = CleanError(r1.errors)])
                        ELSE [r1 EXCEPT !.idx = r.idx + 1])
  /\ UNCHANGED <<now, calls>>

\* a tier is a Cache of its own: its owner sets a key on it directly
DirectSet ==
  /\ calls < MaxCalls
  /\ \E i \in 1..Len(caches), key \in Keys, value \in Values, ttl \in 1..MaxTTL :
       \E fail \in FaultsOf(caches[i]) :
         LET res == CacheSet(caches[i], key, value, ttl, now, fail)
         IN /\ res.cache # caches[i]
            /\ caches' = [caches EXCEPT ![i] = res.cache]
  /\ th' = [u \in Threads |-> Disturbed(th[u])]
  /\ calls' = calls + 1
  /\ UNCHANGED now

\* time passes
Tick ==
  /\ now < MaxTime
  /\ now' = now + 1
  /\ UNCHANGED <<caches, th, calls>>

Next ==
  \/ \E t \in Threads : Call(t)
  \/ \E t \in Threads : SetStep(t)
  \/ \E t \in Threads : GetStep(t)
  \/ \E t \in Threads : GetTTL(t)
  \/ \E t \in Threads : GetRefill(t)
  \/ \E t \in Threads : CleanStep(t)
  \/ DirectSet
  \/ Tick

Spec == Init /\ [][Next]_vars

\* ---- properties ----
Holds(c, k) == k \in DOMAIN c.values /\ k \in DOMAIN c.expires

Entries(r, op) == {n \in DOMAIN r.log : r.log[n].op = op}

\* the tier reads of a Get that hit, and its refill writes
Hits(r) == {n \in Entries(r, "Get") : r.log[n].err = Nil}
Refills(r) == IF r.op = "Get" THEN Entries(r, "Set") ELSE {}
FailedRefills(r) == {n \in Refills(r) : r.log[n].err # Nil}

DoneOp(t, op) == th[t].pc = "done" /\ th[t].op = op

\* every faster tier than j holds key with value
FasterHold(j, key, value) ==
  \A i \in 1..(j - 1) : Holds(caches[i], key) /\ caches[i].values[key] = value

Stored(c) == <<c.values, c.expires>>

\* C2: a Get whose tier 0 hits returns tier 0's value and expiry in that one
\* step: tier 0's Get is the only tier call and no tier's stored state changes.
C2_Tier0Hit ==
  [][\A t \in Threads :
       (th[t].pc = "run" /\ th[t].op = "Get" /\ th[t].log = <<>>
        /\ Len(th'[t].log) = 1 /\ th'[t].log[1].err = Nil)
       => /\ th'[t].pc = "done" /\ th'[t].err = Nil
          /\ Holds(caches[1], th[t].key)
          /\ th'[t].rvalue = caches[1].values[th[t].key]
          /\ th'[t].rexpires = caches[1].expires[th[t].key]
          /\ Len(th'[t].log) = 1 /\ th'[t].log[1].op = "Get" /\ th'[t].log[1].tier = 1
          /\ \A i \in 1..Len(caches) : Stored(caches'[i]) = Stored(caches[i])]_vars

C2_Witness ==
  \E t \in Threads : DoneOp(t, "Get") /\ th[t].err = Nil /\ Len(th[t].log) = 1
    /\ Len(caches) = 3 /\ th[t].rvalue \in Values

\* C3: when a tier's Get returns an error that is not a miss, the combined Get
\* returns that error unchanged and reads no slower tier (and writes none).
C3_FailFast ==
  \A t \in Threads : th[t].op = "Get" =>
    LET r == th[t] IN
    \A n \in Entries(r, "Get") : r.log[n].err \notin {Nil, ErrCacheMiss} =>
      /\ r.pc = "done" /\ r.err = r.log[n].err /\ r.rvalue = NoValue
      /\ n = Len(r.log)
      /\ \A m \in DOMAIN r.log : r.log[m].op = "Get" /\ r.log[m].tier <= r.log[n].tier
      /\ \A m \in 1..(n - 1) : r.log[m].err = ErrCacheMiss

C3_Witness ==
  \E t \in Threads : DoneOp(t, "Get") /\ Len(caches) = 3 /\ Len(th[t].log) = 2
    /\ th[t].log[2].err = ErrBackend /\ th[t].err = ErrBackend
    /\ Holds(caches[3], th[t].key)

\* the outcome of the lookup over a[1:] of a Get whose tier 0 missed
RestOf(r) == {n \in DOMAIN r.log : r.log[n].tier >= 2}
RestFatal(r) == {n \in RestOf(r) : r.log[n].op = "Get" /\ r.log[n].err \notin {Nil, ErrCacheMiss}}
RestFailedSet(r) == {n \in RestOf(r) : r.log[n].op = "Set" /\ r.log[n].err # Nil}
RestHit(r) == {n \in RestOf(r) : r.log[n].op = "Get" /\ r.log[n].err = Nil}
RestErr(r) ==
  IF RestFatal(r) # {} THEN r.log[CHOOSE n \in RestFatal(r) : TRUE].err
  ELSE IF RestFailedSet(r) # {} THEN r.log[CHOOSE n \in RestFailedSet(r) : TRUE].err
  ELSE IF RestHit(r) = {} THEN ErrCacheMiss
  ELSE Nil

Tier0Missed(r) ==
  /\ r.op = "Get" /\ Len(r.log) >= 1
  /\ r.log[1].op = "Get" /\ r.log[1].tier = 1 /\ r.log[1].err = ErrCacheMiss

\* C4: when tier 0 misses and the lookup over the remaining tiers fails (miss
\* or error), Get returns exactly that failure and makes no refill write: alone,
\* tier 0 is as its own Get left it.
C4_NoRefillOnFailure ==
  \A t \in Threads : (DoneOp(t, "Get") /\ Tier0Missed(th[t]) /\ RestErr(th[t]) # Nil) =>
    LET r == th[t] IN
    /\ r.err = RestErr(r) /\ r.rvalue = NoValue /\ r.rexpires = ZeroTime
    /\ \A n \in DOMAIN r.log : ~(r.log[n].op = "Set" /\ r.log[n].tier = 1)
    /\ r.solo => Stored(caches[1]) = Stored(r.mid[1])

C4_Witness ==
  \E t \in Threads : DoneOp(t, "Get") /\ Tier0Missed(th[t]) /\ th[t].solo
    /\ Len(caches) = 3 /\ RestFailedSet(th[t]) # {} /\ th[t].err = ErrBackend

\* Set calls the tiers' Set in index order, fastest first, tier i+1 only
\* after tier i returned success; at the first error it stops and returns that
\* error, and a step of Set writes no tier but the one it calls.
C5_SetLog ==
  \A t \in Threads : th[t].op = "Set" =>
    LET r == th[t] IN
    /\ \A n \in DOMAIN r.log :
         /\ r.log[n].op = "Set" /\ r.log[n].tier = n
         /\ n < Len(r.log) => r.log[n].err = Nil
    /\ r.pc = "run" => (r.idx = Len(r.log) + 1 /\ \A n \in DOMAIN r.log : r.log[n].err = Nil)
    /\ r.pc = "done" =>
         IF r.log # <<>> /\ r.log[Len(r.log)].err # Nil
           THEN r.err = r.log[Len(r.log)].err
           ELSE r.err = Nil /\ Len(r.log) = Len(caches)

C5_SetStepFrame ==
  \A t \in Threads :
    (th[t].op = "Set" /\ th'[t].op = "Set" /\ th'[t].log # th[t].log) =>
      \A i \in 1..Len(caches) : i # Len(th'[t].log) => caches'[i] = caches[i]

\* C5: the tier Set calls of a combined Set are in index order, each after the
\* success of the one before, and stop at the first error, which is returned.
C5_SetOrder == []C5_SetLog /\ [][C5_SetStepFrame]_vars

C5_Witness ==
  \E t \in Threads : DoneOp(t, "Set") /\ Len(caches) = 3 /\ Len(th[t].log) = 2
    /\ th[t].err = ErrBackend /\ ~Holds(caches[3], th[t].key)
    /\ Holds(caches[1], th[t].key)

FailedSet(u) == DoneOp(u, "Set") /\ th[u].err # Nil /\ Len(th[u].log) > 1

\* when Set fails at tier i > 0 nothing is rolled back: (alone) every
\* faster tier holds the new value, and a read of tier 0 made then, while that
\* entry has not expired, finds it ...
C6_FasterKeep ==
  \A u \in Threads : (FailedSet(u) /\ th[u].solo) =>
    LET r == th[u] IN
    /\ \A j \in 1..(Len(r.log) - 1) :
         Holds(caches[j], r.key) /\ caches[j].values[r.key] = r.value
    /\ ~Before(caches[1].expires[r.key], now) =>
         LET g == CacheGet(caches[1], r.key, now, "none")
         IN IsHit(g.err) /\ g.value = r.value

\* ... so the first tier read of a combined Get made right after the failed Set
\* either fails in the backend of tier 0 or hits, and then Get returns the value.
C6_GetAfter ==
  \A u, t \in Threads :
    (FailedSet(u) /\ th[u].solo /\ ~Before(caches[1].expires[th[u].key], now)
     /\ th[t].pc = "run" /\ th[t].op = "Get" /\ th[t].key = th[u].key
     /\ th[t].log = <<>> /\ th'[t].log # <<>>)
    => /\ th'[t].log[1].err \in {Nil, ErrBackend}
       /\ th'[t].log[1].err = Nil =>
            (th'[t].pc = "done" /\ th'[t].err = Nil /\ th'[t].rvalue = th[u].value)

\* C6: a Set that failed at tier i > 0 rolls nothing back, and a Get right after
\* it returns the new value.
C6_NoRollback == []C6_FasterKeep /\ [][C6_GetAfter]_vars

C6_Witness ==
  \E u, t \in Threads :
    /\ FailedSet(u) /\ th[u].err = ErrTooBig
    /\ DoneOp(t, "Get") /\ th[t].err = Nil /\ Len(th[t].log) = 1
    /\ th[t].rvalue = th[u].value /\ th[t].key = th[u].key

\* the errors the tiers returned to the call, in the order of the tiers
FailedErrors(r) ==
  SelectSeq([n \in DOMAIN r.log |-> r.log[n].err], LAMBDA e : e # Nil)

\* Clean calls Clean on every tier once, in order, whatever the earlier
\* tiers returned; it returns nil iff no tier failed and otherwise one error
\* that counts the tiers that failed; a tier whose Clean succeeded holds no
\* entry that expired before the time of that call.
C7_CleanLog ==
  \A t \in Threads : th[t].op = "Clean" =>
    LET r == th[t]
        failed == {n \in DOMAIN r.log : r.log[n].err # Nil}
    IN /\ \A n \in DOMAIN r.log : r.log[n].op = "Clean" /\ r.log[n].tier = n
       /\ r.pc = "run" => r.idx = Len(r.log) + 1
       /\ Len(r.errors) = Cardinality(failed)
       /\ r.pc = "done" =>
            /\ Len(r.log) = Len(caches)
            /\ r.err = Nil <=> failed = {}
            /\ failed # {} => r.err = Errorf(FailedErrors(r))

C7_CleanStepPrunes ==
  \A t \in Threads :
    (th[t].op = "Clean" /\ th'[t].op = "Clean" /\ Len(th'[t].log) = Len(th[t].log) + 1
     /\ th'[t].log[Len(th'[t].log)].err = Nil)
    => LET i == Len(th'[t].log)
       IN /\ \A k \in DOMAIN caches'[i].expires : ~Before(caches'[i].expires[k], now)
          /\ \A k \in DOMAIN caches[i].expires :
               ~Before(caches[i].expires[k], now) => Holds(caches'[i], k)

\* C7: Clean prunes every tier once and reports how many tiers failed.
C7_CleanAll == []C7_CleanLog /\ [][C7_CleanStepPrunes]_vars

C7_Witness ==
  \E t \in Threads : DoneOp(t, "Clean") /\ Len(caches) = 3
    /\ th[t].log[1].err = Nil /\ th[t].log[2].err # Nil /\ th[t].log[3].err = Nil
    /\ th[t].err = Errorf(<<th[t].log[2].err>>) /\ Len(th[t].errors) = 1

\* C8 as stated: the expiry a refill stores in the faster tier is never later
\* than the expiry of the entry it was copied from.
C8_NeverExtends ==
  \A t \in Threads : (th[t].op = "Get" /\ th[t].solo) =>
    LET r == th[t] IN
    \A m \in Refills(r), n \in Hits(r) :
      (r.log[m].err = Nil /\ r.log[m].ttl > 0 /\ Holds(caches[r.log[m].tier], r.key))
      => caches[r.log[m].tier].expires[r.key] <= r.log[n].expires

C10_NoOpRefill ==
  \A t \in Threads : th[t].op = "Get" =>
    LET r == th[t] IN
    \A m \in Refills(r) : r.log[m].ttl <= 0 =>
      /\ r.log[m].err = Nil
      /\ r.solo => (r.key \notin DOMAIN caches[r.log[m].tier].values
                    /\ r.key \notin DOMAIN caches[r.log[m].tier].expires)
      /\ r.pc = "done" =>
           \A n \in Hits(r) :
             r.err = Nil /\ r.rvalue = r.log[n].value /\ r.rexpires = r.log[n].expires

C10_Witness ==
  \E t \in Threads : DoneOp(t, "Get") /\ th[t].solo /\ th[t].err = Nil
    /\ th[t].rvalue \in Values
    /\ \E m \in Refills(th[t]) : th[t].log[m].ttl < 0 /\ th[t].log[m].tier = 1

\* ---- memoryCache, statement by statement, with its mutex ----
\* One memoryCache (caches[1]) is called by the threads.  calls counts the
\* calls made and keeps, in the order of their return, what each was given and
\* what it returned.

\* a mutex that lets every caller in
LockFreeAlways(m) == TRUE

\* sync.Mutex.Lock returns when nobody holds the mutex
LockFree(m) == m = 0

MemIdle ==
  [pc |-> "idle", op |-> "none", key |-> "k1", value |-> NoValue,
   expiration |-> 0,
   \* Get's local variables, and the keys Clean's range has still to produce
   lvalue |-> NoValue, okv |-> FALSE, lexpires |-> ZeroTime, oke |-> FALSE,
   todo |-> {},
   \* history of the call: the clock when a Clean was called, the clock of
   \* the call's time.Now(), the maps when the call locked the mutex
   called |-> ZeroTime, at |-> ZeroTime, snap |-> <<>>]

\* a returned call: at is the clock read by the call (a Set without clock
\* read, and a Clean, take the clock of their return)
HistEntry(r, at, value, expires, err) ==
  [op |-> r.op, key |-> r.key, ttl |-> r.expiration, at |-> at,
   value |-> value, expires |-> expires, err |-> err, snap |-> r.snap]

MemReturn(t, r, at, value, expires, err) ==
  /\ th' = [th EXCEPT ![t] = [MemIdle EXCEPT !.pc = "done", !.op = r.op, !.key = r.key,
                                            !.value = r.value,
                                            !.expiration = r.expiration]]
  /\ calls' = [calls EXCEPT !.hist = Append(@, HistEntry(r, at, value, expires, err))]

InitMem ==
  /\ caches = <<newCache("memory")>>
  /\ now = StartTime
  /\ calls = [n |-> 0, hist |-> <<>>]
  /\ th = [t \in Threads |-> MemIdle]

\* a thread calls Set, Get or Clean of the memoryCache
MemCall(t) ==
  /\ th[t].pc \in {"idle", "done"}
  /\ calls.n < MaxMemCalls
  /\ \E op \in {"Get", "Set", "Clean"}, key \in MemKeys, value \in Values, ttl \in MemTTLs :
       /\ op = "Clean" => key = "k1"
       /\ op # "Set" => (value = "v1" /\ ttl = 0)
       /\ th' = [th EXCEPT ![t] =
                   [MemIdle EXCEPT !.op = op, !.key = key,
                      !.value = IF op = "Set" THEN value ELSE NoValue,
                      !.expiration = ttl,
                      !.called = IF op = "Clean" THEN now ELSE ZeroTime,
                      !.pc = IF op = "Set" THEN "set_check" ELSE "lock"]]
  /\ calls' = [calls EXCEPT !.n = @ + 1]
  /\ UNCHANGED <<caches, now>>

\* a Set that stores a zero expiration too
NoOpSetNegative(expiration) == expiration < 0

\* a Set that stores whatever its expiration
NoOpSetNever(expiration) == FALSE

\* Set: "if expiration <= 0"
NoOpSet(expiration) == expiration <= 0

\* Set: "if expiration <= 0 { return nil }"
MemSetCheck(t) ==
  LET r == th[t] IN
  /\ r.pc = "set_check"
  /\ IF NoOpSet(r.expiration)
       THEN MemReturn(t, r, now, r.value, ZeroTime, Nil)
       ELSE th' = [th EXCEPT ![t] = [r EXCEPT !.pc = "lock"]] /\ UNCHANGED calls
  /\ UNCHANGED <<caches, now>>

\* Set, Get, Clean: "a.m.Lock()"
MemLock(t) ==
  LET r == th[t] IN
  /\ r.pc = "lock"
  /\ LockFree(caches[1].m)
  /\ caches' = [caches EXCEPT ![1].m = t]
  /\ th' = [th EXCEPT ![t] =
              [r EXCEPT !.pc = CASE r.op = "Set" -> "set_values"
                                 [] r.op = "Get" -> "get_read"
                                 [] OTHER -> "clean_range",
                        !.snap = <<caches[1].values, caches[1].expires>>]]
  /\ UNCHANGED <<now, calls>>

\* the deferred a.m.Unlock() of a returning call
Unlocked(c) == [c EXCEPT !.m = 0]

\* Set: "a.values[key] = value"
MemSetValues(t) ==
  LET r == th[t] IN
  /\ r.pc = "set_values"
  /\ caches' = [caches EXCEPT ![1].values = Put(@, r.key, r.value)]
  /\ th' = [th EXCEPT ![t] = [r EXCEPT !.pc = "set_expires"]]
  /\ UNCHANGED <<now, calls>>

\* an expiry without the lifetime
AddNothing(t, d) == t

\* time.Time.Add
Add(t, d) == t + d

\* Set: "a.expires[key] = time.Now().Add(expiration)" and "return nil"
MemSetExpires(t) ==
  LET r == th[t]
      expires == Add(now, r.expiration)
  IN
  /\ r.pc = "set_expires"
  /\ caches' = [caches EXCEPT
                  ![1] = Unlocked([@ EXCEPT !.expires = Put(@, r.key, expires)])]
  /\ MemReturn(t, [r EXCEPT !.at = now], now, r.value, expires, Nil)
  /\ UNCHANGED now

\* Get: "value, okv := a.values[key]" and "expires, oke := a.expires[key]"
MemGetRead(t) ==
  LET r == th[t]
      c == caches[1]
      okv == r.key \in DOMAIN c.values
      oke == r.key \in DOMAIN c.expires
  IN /\ r.pc = "get_read"
     /\ th' = [th EXCEPT ![t] =
                 [r EXCEPT !.okv = okv, !.oke = oke,
                           !.lvalue = IF okv THEN c.values[r.key] ELSE NoValue,
                           !.lexpires = IF oke THEN c.expires[r.key] ELSE ZeroTime,
                           !.pc = "get_check"]]
     /\ UNCHANGED <<caches, now, calls>>

\* a test of expiration that always holds
ExpiredAlways(expires, t) == TRUE

\* a test of expiration that never holds
ExpiredNever(expires, t) == FALSE

\* a Get that takes an entry for expired at the instant of its expiration
ExpiredAtInstant(expires, t) == ~Before(t, expires)

\* Get, Clean: "if expires.Before(time.Now())"
Expired(expires, t) == Before(expires, t)

\* Get: "if !okv || !oke { return miss }", "if expires.Before(time.Now())",
\* "return value, expires, nil"
MemGetCheck(t) ==
  LET r == th[t] IN
  /\ r.pc = "get_check"
  /\ IF ~r.okv \/ ~r.oke
       THEN /\ caches' = [caches EXCEPT ![1] = Unlocked(@)]
            /\ MemReturn(t, [r EXCEPT !.at = now], now, NoValue, ZeroTime, ErrCacheMiss)
       ELSE IF Expired(r.lexpires, now)
         THEN /\ th' = [th EXCEPT ![t] = [r EXCEPT !.at = now, !.pc = "get_delete"]]
              /\ UNCHANGED <<caches, calls>>
         ELSE /\ caches' = [caches EXCEPT ![1] = Unlocked(@)]
              /\ MemReturn(t, [r EXCEPT !.at = now], now, r.lvalue, r.lexpires, Nil)
  /\ UNCHANGED now

\* an eviction that forgets the expiry map
EvictValueOnly(c, key) == [c EXCEPT !.values = Delete(@, key)]

\* Get, Clean: "delete(a.values, key)" and "delete(a.expires, key)"
Evict(c, key) == [c EXCEPT !.values = Delete(@, key), !.expires = Delete(@, key)]

\* Get: "delete(a.values, key)", "delete(a.expires, key)", "return miss"
MemGetDelete(t) ==
  LET r == th[t] IN
  /\ r.pc = "get_delete"
  /\ caches' = [caches EXCEPT ![1] = Unlocked(Evict(@, r.key))]
  /\ MemReturn(t, r, r.at, NoValue, ZeroTime, ErrCacheMiss)
  /\ UNCHANGED now

\* Clean: "for key, expires := range a.expires" starts
MemCleanRange(t) ==
  LET r == th[t] IN
  /\ r.pc = "clean_range"
  /\ th' = [th EXCEPT ![t] = [r EXCEPT !.todo = DOMAIN caches[1].expires,
                                       !.pc = "clean_iter"]]
  /\ UNCHANGED <<caches, now, calls>>

\* Clean: one iteration of the range (a deleted key is not produced), or the
\* return after the last
MemCleanIter(t) ==
  LET r == th[t]
      c == caches[1]
      todo == r.todo \cap DOMAIN c.expires
  IN /\ r.pc = "clean_iter"
     /\ IF todo = {}
          THEN /\ caches' = [caches EXCEPT ![1] = Unlocked(@)]
               /\ MemReturn(t, [r EXCEPT !.at = now], now, NoValue, ZeroTime, Nil)
          ELSE /\ \E key \in todo :
                    /\ caches' = IF Expired(c.expires[key], now)
                                   THEN [caches EXCEPT ![1] = Evict(@, key)]
                                   ELSE caches
                    /\ th' = [th EXCEPT ![t] = [r EXCEPT !.todo = todo \ {key}]]
               /\ UNCHANGED calls
     /\ UNCHANGED now

\* time passes
MemTick ==
  /\ now < MaxTime
  /\ now' = now + 1
  /\ UNCHANGED <<caches, th, calls>>

NextMem ==
  \/ \E t \in Threads : MemCall(t)
  \/ \E t \in Threads : MemSetCheck(t)
  \/ \E t \in Threads : MemLock(t)
  \/ \E t \in Threads : MemSetValues(t)
  \/ \E t \in Threads : MemSetExpires(t)
  \/ \E t \in Threads : MemGetRead(t)
  \/ \E t \in Threads : MemGetCheck(t)
  \/ \E t \in Threads : MemGetDelete(t)
  \/ \E t \in Threads : MemCleanRange(t)
  \/ \E t \in Threads : MemCleanIter(t)
  \/ MemTick

SpecMem == InitMem /\ [][NextMem]_vars

\* ---- properties of the memoryCache ----
Hist == calls.hist

\* the calls i, i+1 returned one after the other, on the same key
Consecutive(i, op1, op2) ==
  /\ i \in 1..(Len(Hist) - 1)
  /\ Hist[i].op = op1 /\ Hist[i + 1].op = op2
  /\ Hist[i + 1].key = Hist[i].key

\* C11: a memoryCache Set(k, v, ttl) with ttl > 0 whose clock read is T
\* replaces what k held: the Get(k) that follows it with the clock still at T
\* returns v with the expiry T + ttl.
C11_SetThenGet ==
  \A i \in 1..(Len(Hist) - 1) :
    (Consecutive(i, "Set", "Get") /\ Hist[i].ttl > 0 /\ Hist[i + 1].at = Hist[i].at)
      => /\ Hist[i + 1].err = Nil
         /\ Hist[i + 1].value = Hist[i].value
         /\ Hist[i + 1].expires = Hist[i].at + Hist[i].ttl

\* a Set replaced the entry of an earlier Set (other value, other expiry), and
\* the Get after it returned the new entry
C11_Witness ==
  /\ Len(Hist) = 3
  /\ Consecutive(1, "Set", "Set") /\ Consecutive(2, "Set", "Get")
  /\ Hist[1].ttl > 0 /\ Hist[2].ttl > 0
  /\ Hist[1].value # Hist[2].value /\ Hist[1].expires # Hist[2].expires
  /\ Hist[3].at = Hist[2].at
  /\ Hist[3].value = Hist[2].value /\ Hist[3].expires = Hist[2].expires

\* the step is one of thread t's call op
StepOf(t, op) == th'[t] # th[t] /\ th'[t].op = op

\* C12: a memoryCache Set with ttl <= 0 returns success and changes nothing:
\* no step of the call changes the value map or the expiry map (for any key),
\* and the call returns nil.
C12_NoOpStep ==
  \A t \in Threads :
    (StepOf(t, "Set") /\ th'[t].expiration <= 0)
      => /\ caches' = caches
         /\ th'[t].pc = "done" => Hist'[Len(Hist')].err = Nil
         /\ th'[t].pc \in {"set_check", "done"}

C12_NoOpSet == [][C12_NoOpStep]_vars

\* a Set with ttl <= 0 and another value returned while its key held an entry
C12_Witness ==
  /\ Len(Hist) = 2
  /\ Consecutive(1, "Set", "Set")
  /\ Hist[1].ttl > 0 /\ Hist[2].ttl <= 0 /\ Hist[2].err = Nil
  /\ Hist[2].value # Hist[1].value
  /\ Hist[2].key \in DOMAIN caches[1].values
  /\ caches[1].values[Hist[2].key] = Hist[1].value
  /\ caches[1].expires[Hist[2].key] = Hist[1].expires

\* the calls before the i-th that stored an entry for its key
Stores(i) ==
  {j \in 1..(i - 1) : Hist[j].op = "Set" /\ Hist[j].key = Hist[i].key /\ Hist[j].ttl > 0}

Max(S) == CHOOSE x \in S : \A y \in S : y <= x

\* the Get returned a miss
IsMiss(g) == g.err = ErrCacheMiss /\ g.value = NoValue /\ g.expires = ZeroTime

\* the Get returned the entry stored by the Set s
IsHitOf(g, s) == g.err = Nil /\ g.value = s.value /\ g.expires = s.expires

\* C13 as stated: for t <= 0, the Get(k) right after Set(k, v, t) misses, in
\* every reachable state, also when k holds an unexpired entry of an earlier Set.
C13_Original ==
  \A i \in 1..(Len(Hist) - 1) :
    (Consecutive(i, "Set", "Get") /\ Hist[i].ttl <= 0) => IsMiss(Hist[i + 1])

\* C13 amended: for t <= 0, Set(k, v, t) is a no-op, so the Get(k) right after
\* it returns what k held before: a miss when no earlier Set stored k or the
\* entry of the latest one has expired, and that entry (not v) otherwise.
C13_GetAfterNoOp ==
  \A i \in 1..(Len(Hist) - 1) :
    (Consecutive(i, "Set", "Get") /\ Hist[i].ttl <= 0)
      => LET g == Hist[i + 1] IN
         IF Stores(i) = {} THEN IsMiss(g)
         ELSE LET s == Hist[Max(Stores(i))] IN
              IF Expired(s.expires, g.at) THEN IsMiss(g) ELSE IsHitOf(g, s)

\* a Get right after a Set with t <= 0 returned the entry of the Set before it
C13_Witness ==
  /\ Len(Hist) = 3
  /\ Consecutive(1, "Set", "Set") /\ Consecutive(2, "Set", "Get")
  /\ Hist[1].ttl > 0 /\ Hist[2].ttl <= 0
  /\ Hist[2].value # Hist[1].value
  /\ IsHitOf(Hist[3], Hist[1])

\* thread t's call op returns in this step
ReturnOf(t, op) == StepOf(t, op) /\ th'[t].pc = "done"

\* the call that returned last
Last(h) == h[Len(h)]

\* what the key of the call g held when g locked the mutex
PresentAt(g) == g.key \in DOMAIN g.snap[1] /\ g.key \in DOMAIN g.snap[2]
ValueAt(g) == g.snap[1][g.key]
ExpiresAt(g) == g.snap[2][g.key]

\* the key is in neither map of the tier
Absent(c, k) == k \notin DOMAIN c.values /\ k \notin DOMAIN c.expires

\* C14 as stated: a memoryCache Get(k) returns a hit only if k is present and
\* its expiresAt is strictly after now; otherwise (absent, or expiresAt at or
\* before now) it returns a miss and k is absent from the tier on return.
C14_OriginalStep ==
  \A t \in Threads : ReturnOf(t, "Get") =>
    LET g == Last(Hist') IN
    IF PresentAt(g) /\ ExpiresAt(g) > g.at
      THEN g.err = Nil
      ELSE IsMiss(g) /\ Absent(caches'[1], g.key)

C14_Original == [][C14_OriginalStep]_vars

\* C14 amended: a memoryCache Get(k) returns a hit (the stored value and
\* expiry) exactly when k is present and its expiresAt is not before now, the
\* instant of the expiration included; otherwise (absent, or expiresAt strictly
\* before now) it returns a miss and k is absent from the tier on return.
C14_GetStep ==
  \A t \in Threads : ReturnOf(t, "Get") =>
    LET g == Last(Hist') IN
    IF PresentAt(g) /\ ExpiresAt(g) >= g.at
      THEN g.err = Nil /\ g.value = ValueAt(g) /\ g.expires = ExpiresAt(g)
      ELSE IsMiss(g) /\ Absent(caches'[1], g.key)

C14_GetHit == [][C14_GetStep]_vars

\* a Get returned an entry at the instant of its expiration, and another Get
\* removed an entry after it
C14_Witness ==
  \E i, j \in 1..Len(Hist) :
    /\ Hist[i].op = "Get" /\ Hist[i].err = Nil /\ Hist[i].expires = Hist[i].at
    /\ Hist[j].op = "Get" /\ IsMiss(Hist[j]) /\ PresentAt(Hist[j])
    /\ Absent(caches[1], Hist[j].key)

\* C15 as stated: when a memoryCache Clean returns, no entry whose expiresAt
\* is at or before the time of the call remains.
C15_OriginalStep ==
  \A t \in Threads : ReturnOf(t, "Clean") =>
    \A k \in DOMAIN caches'[1].expires : ~(caches'[1].expires[k] <= th[t].called)

C15_Original == [][C15_OriginalStep]_vars

\* C15 amended: when a memoryCache Clean returns, no entry whose expiresAt is
\* strictly before the time of the call remains, in either map; an entry whose
\* expiresAt is the time of the call is kept.  Clean returns nil.
C15_CleanStep ==
  \A t \in Threads : ReturnOf(t, "Clean") =>
    /\ \A k \in DOMAIN caches'[1].expires : ~(caches'[1].expires[k] < th[t].called)
    /\ DOMAIN caches'[1].values = DOMAIN caches'[1].expires
    /\ \A k \in DOMAIN Last(Hist').snap[2] :
         Last(Hist').snap[2][k] = Last(Hist').at => k \in DOMAIN caches'[1].expires
    /\ Last(Hist').err = Nil

C15_CleanExpired == [][C15_CleanStep]_vars

\* a Clean removed an entry and kept the one that expires at the instant of
\* the Clean
C15_Witness ==
  /\ Len(Hist) = 3 /\ Hist[3].op = "Clean"
  /\ \E t \in Threads : th[t].pc = "done" /\ th[t].op = "Clean"
  /\ DOMAIN Hist[3].snap[2] = MemKeys
  /\ \E k \in MemKeys :
       /\ DOMAIN caches[1].expires = {k}
       /\ caches[1].expires[k] = Hist[3].at

\* ---- expiration, in the tiers of the combination ----
\* thread t calls op of the tier th[t].idx in this step
TierCall(t, op) ==
  /\ Len(th'[t].log) = Len(th[t].log) + 1
  /\ Last(th'[t].log).op = op

BackendErrors == {ErrConnect, ErrBackend, ErrDelete}

\* C16: values expire strictly after the provided expiration.  A Set of a tier
\* (memoryCache or datastoreCache) at time T with ttl > 0 stores the expiry
\* T + ttl, and a Get of a tier that holds the entry (no backend failure)
\* returns it at every time <= T + ttl, that instant included, and misses at
\* every later time.
C16_TierStep ==
  \A t \in Threads :
    LET i == th[t].idx
        e == Last(th'[t].log)
    IN /\ (TierCall(t, "Set") /\ e.ttl > 0 /\ e.err = Nil)
            => /\ Holds(caches'[i], th[t].key)
               /\ caches'[i].values[th[t].key] = e.value
               /\ caches'[i].expires[th[t].key] = now + e.ttl
       /\ (TierCall(t, "Get") /\ Holds(caches[i], th[t].key) /\ e.err \notin BackendErrors)
            => IF now <= caches[i].expires[th[t].key]
                 THEN /\ e.err = Nil
                      /\ e.value = caches[i].values[th[t].key]
                      /\ e.expires = caches[i].expires[th[t].key]
                 ELSE e.err = ErrCacheMiss

C16_ExpireStrictlyAfter == [][C16_TierStep]_vars

\* a Get returned the entry of the datastoreCache at the instant of its
\* expiration, after the clock advanced
C16_Witness ==
  \E t \in Threads :
    /\ DoneOp(t, "Get") /\ Len(th[t].log) = 1
    /\ caches[1].kind = "datastore"
    /\ th[t].log[1].err = Nil /\ th[t].log[1].expires = now
    /\ now > StartTime

\* ---- the combination of no tier ----
\* C17: on a combination of zero tiers, Get misses (no value, no expiry) and
\* Set and Clean return nil, without calling any tier; no step changes the
\* (empty) list of tiers.
C17_ZeroTiersState ==
  Len(caches) = 0 =>
    \A t \in Threads : th[t].pc = "done" =>
      /\ th[t].log = <<>>
      /\ th[t].op = "Get" => /\ th[t].err = ErrCacheMiss
                             /\ th[t].rvalue = NoValue
                             /\ th[t].rexpires = ZeroTime
      /\ th[t].op \in {"Set", "Clean"} => th[t].err = Nil

C17_ZeroTiersStep == Len(caches) = 0 => caches' = caches

C17_ZeroTiers == []C17_ZeroTiersState /\ [][C17_ZeroTiersStep]_vars

\* on zero tiers a Get has returned to one caller and a Set or a Clean to the
\* other
C17_Witness ==
  /\ Len(caches) = 0
  /\ \E t, u \in Threads : DoneOp(t, "Get") /\ th[u].pc = "done" /\ th[u].op \in {"Set", "Clean"}

\* ---- a combination as a tier of a combination ----
\* A combinedCache is a list of cachers and is a cacher itself.  A cacher is
\* written [tier |-> i, sub |-> <<>>] for the tier i of caches, and
\* [tier |-> 0, sub |-> a] for the combinedCache of the cachers a.  A call is
\* evaluated as a whole, at the time q.t; q.f[i] is the fault of tier i in the
\* call and q.g[i] its fault in the refill.
Leaf(i) == [tier |-> i, sub |-> <<>>]
Combined(a) == [tier |-> 0, sub |-> a]

Outcome(cs, res) == [cs |-> cs, value |-> res.value, expires |-> res.expires, err |-> res.err]

\* a recursion that drops a tier: a[2:]
RestSkipsOne(a) == IF Len(a) > 1 THEN Tail(Tail(a)) ELSE <<>>

\* Get: a[1:]
Rest(a) == Tail(a)

RECURSIVE combinedCacheSet(_, _, _)
RECURSIVE combinedCacheGet(_, _, _)
RECURSIVE combinedCacheClean(_, _, _, _)

cacherSet(x, cs, q, fault) ==
  IF x.tier > 0
    THEN LET res == CacheSet(cs[x.tier], q.key, q.value, q.expiration, q.t, fault[x.tier])
         IN Outcome([cs EXCEPT ![x.tier] = res.cache], res)
    ELSE combinedCacheSet(x.sub, cs, [q EXCEPT !.f = fault])

cacherGet(x, cs, q) ==
  IF x.tier > 0
    THEN LET res == CacheGet(cs[x.tier], q.key, q.t, q.f[x.tier])
         IN Outcome([cs EXCEPT ![x.tier] = res.cache], res)
    ELSE combinedCacheGet(x.sub, cs, q)

cacherClean(x, cs, q) ==
  IF x.tier > 0
    THEN LET res == CacheClean(cs[x.tier], q.t, q.f[x.tier])
         IN Outcome([cs EXCEPT ![x.tier] = res.cache], res)
    ELSE combinedCacheClean(x.sub, cs, q, <<>>)

\* combinedCache.Set: the loop over the tiers
combinedCacheSet(a, cs, q) ==
  IF Len(a) = 0 THEN Outcome(cs, [value |-> NoValue, expires |-> ZeroTime, err |-> Nil])
  ELSE LET res == cacherSet(Head(a), cs, q, q.f)
       IN IF SetAborts(res.err) THEN res
          ELSE combinedCacheSet(Tail(a), res.cs, q)

\* combinedCache.Get: the recursion
combinedCacheGet(a, cs, q) ==
  IF Len(a) = 0 THEN Outcome(cs, EmptyGet)
  ELSE LET first == cacherGet(a[1], cs, q)
       IN IF IsHit(first.err) THEN first
          ELSE IF IsFatal(first.err)
            THEN Outcome(first.cs, [value |-> NoValue, expires |-> ZeroTime, err |-> first.err])
          ELSE LET rest == combinedCacheGet(Rest(a), first.cs, q)
               IN IF rest.err # Nil
                    THEN Outcome(rest.cs, LookupFailure(rest.value, rest.expires, rest.err))
                    ELSE LET set == cacherSet(a[1], rest.cs,
                                      [q EXCEPT !.value = rest.value,
                                                !.expiration = RefillTTL(rest.expires, q.t)],
                                      q.g)
                         IN IF set.err # Nil
                              THEN Outcome(set.cs, RefillFailure(rest.value, rest.expires, set.err))
                              ELSE Outcome(set.cs, rest)

\* combinedCache.Clean: the loop over the tiers, errors collected so far
combinedCacheClean(a, cs, q, errors) ==
  IF Len(a) = 0
    THEN Outcome(cs, [value |-> NoValue, expires |-> ZeroTime, err |-> CleanError(errors)])
  ELSE LET res == cacherClean(Head(a), cs, q)
       IN combinedCacheClean(Tail(a), res.cs, q, CollectError(errors, res.err))

\* the flat combination of the tiers 1..n, and the combination of tier 1 and
\* of the combination of the tiers 2..n
Flat(n) == [i \in 1..n |-> Leaf(i)]
Nested(n) == <<Leaf(1), Combined([i \in 1..(n - 1) |-> Leaf(i + 1)])>>

\* the faults the tiers can have in a call
FaultPlans(cs) == {f \in [DOMAIN cs -> Faults] : \A i \in DOMAIN cs : f[i] \in FaultsOf(cs[i])}

\* the faults the tiers can have in a refill: they are connected by their Get
RefillPlans(cs) == {g \in FaultPlans(cs) : \A i \in DOMAIN cs : g[i] \in {"none", "rpc"}}

\* what each tier returns to a Clean of the call q
CleanErrors(cs, q) == [i \in DOMAIN cs |-> CacheClean(cs[i], q.t, q.f[i]).err]

NoCall == [op |-> "none"]

InitNest ==
  /\ caches \in UNION {[1..n -> {newCache(k) : k \in Kinds}] : n \in 1..MaxTiers}
  /\ now = StartTime
  /\ calls = 0
  /\ th = NoCall

\* the same call on both combinations, from the same state of the tiers; the
\* tiers go on from the state the flat combination leaves
Both(op, q, flat, nested) ==
  /\ th' = [op |-> op, key |-> q.key, pre |-> caches,
            errors |-> IF op = "Clean" THEN CleanErrors(caches, q) ELSE <<>>,
            flat |-> flat, nested |-> nested]
  /\ caches' = flat.cs
  /\ calls' = calls + 1
  /\ UNCHANGED now

NestSet ==
  /\ calls < MaxOps
  /\ \E key \in Keys, value \in Values, ttl \in TTLs, f \in FaultPlans(caches) :
       LET q == [key |-> key, value |-> value, expiration |-> ttl, t |-> now, f |-> f, g |-> f]
       IN Both("Set", q, combinedCacheSet(Flat(Len(caches)), caches, q),
                         combinedCacheSet(Nested(Len(caches)), caches, q))

NestGet ==
  /\ calls < MaxOps
  /\ \E key \in Keys, f \in FaultPlans(caches), g \in RefillPlans(caches) :
       LET q == [key |-> key, value |-> NoValue, expiration |-> 0, t |-> now, f |-> f, g |-> g]
       IN Both("Get", q, combinedCacheGet(Flat(Len(caches)), caches, q),
                         combinedCacheGet(Nested(Len(caches)), caches, q))

NestClean ==
  /\ calls < MaxOps
  /\ \E f \in FaultPlans(caches) :
       LET q == [key |-> "k1", value |-> NoValue, expiration |-> 0, t |-> now, f |-> f, g |-> f]
       IN Both("Clean", q, combinedCacheClean(Flat(Len(caches)), caches, q, <<>>),
                           combinedCacheClean(Nested(Len(caches)), caches, q, <<>>))

\* a tier is a Cache of its own: its owner sets a key on it directly
NestDirectSet ==
  /\ calls < MaxOps
  /\ \E i \in 1..Len(caches), key \in Keys, value \in Values, ttl \in 1..MaxTTL :
       LET res == CacheSet(caches[i], key, value, ttl, now, "none")
       IN /\ res.err = Nil
          /\ caches' = [caches EXCEPT ![i] = res.cache]
  /\ th' = NoCall
  /\ calls' = calls + 1
  /\ UNCHANGED now

NestTick ==
  /\ now < MaxTime
  /\ now' = now + 1
  /\ UNCHANGED <<caches, th, calls>>

NextNest == NestSet \/ NestGet \/ NestClean \/ NestDirectSet \/ NestTick

SpecNest == InitNest /\ [][NextNest]_vars

\* C18 as stated: the flat combination and the combination of tier 0 with the
\* combination of the other tiers return the same results and leave every
\* tier in the same state, for Get, Set and Clean.
C18_Original == th # NoCall => th.flat = th.nested

\* the errors the tiers from..to returned to the Clean of the call th
Failures(from, to) ==
  SelectSeq(SubSeq(th.errors, from, to), LAMBDA e : e # Nil)

\* C18 amended: the two combinations leave every tier in the same state for
\* Get, Set and Clean, and return the same results for Get and Set.  For Clean
\* both succeed or both fail, with the same error when no tier of the inner
\* combination fails; when some do, the flat combination counts every failed
\* tier, and the nested one counts the inner combination as one error, whose
\* message is the inner combination's own count.
C18_SelfSimilar ==
  th # NoCall =>
    /\ th.flat.cs = th.nested.cs
    /\ th.op \in {"Get", "Set"} => th.flat = th.nested
    /\ th.op = "Clean" =>
         LET first == Failures(1, 1)
             inner == Failures(2, Len(th.errors))
         IN /\ (th.flat.err = Nil) <=> (th.nested.err = Nil)
            /\ inner = <<>> => th.nested.err = th.flat.err
            /\ inner # <<>> => /\ th.flat.err = Errorf(first \o inner)
                               /\ th.nested.err = Errorf(first \o <<Errorf(inner)>>)

\* a Get of three tiers that hit in the slowest and refilled the two faster
C18_Witness ==
  /\ th # NoCall /\ th.op = "Get" /\ Len(caches) = 3
  /\ th.nested.err = Nil /\ th.nested.value = "v1"
  /\ ~Holds(th.pre[1], th.key) /\ ~Holds(th.pre[2], th.key)
  /\ Holds(th.nested.cs[1], th.key) /\ Holds(th.nested.cs[2], th.key)

\* ---- values of 1 MiB or more ----
HasDatastore == \E i \in 1..Len(caches) : caches[i].kind = "datastore"

\* C19 as stated: the Set of a datastoreCache rejects every value of 1 MiB or
\* more with ErrTooBig and stores nothing, and the combinedCache Set returns
\* that error.
C19_OriginalStep ==
  \A t \in Threads :
    LET i == th[t].idx
        e == Last(th'[t].log)
    IN (TierCall(t, "Set") /\ caches[i].kind = "datastore" /\ ValueLen(e.value) >= TooBig)
         => /\ e.err = ErrTooBig
            /\ caches'[i] = caches[i]
            /\ th[t].op = "Set" => th'[t].pc = "done" /\ th'[t].err = ErrTooBig

C19_Original == [][C19_OriginalStep]_vars

\* C19 amended: with ttl > 0, the Set of a datastoreCache rejects every value
\* of 1 MiB or more with ErrTooBig and leaves the tier as it was (not even
\* connected), and a combinedCache Set of such a value over tiers that include
\* a datastoreCache returns ErrTooBig at that call; with ttl <= 0 the Set of
\* the tier is a no-op that returns nil, whatever the size.
C19_TooBigStep ==
  \A t \in Threads :
    LET i == th[t].idx
        e == Last(th'[t].log)
    IN (TierCall(t, "Set") /\ caches[i].kind = "datastore" /\ ValueLen(e.value) >= TooBig)
         => /\ caches'[i] = caches[i]
            /\ e.err = IF e.ttl > 0 THEN ErrTooBig ELSE Nil
            /\ (th[t].op = "Set" /\ e.ttl > 0)
                 => th'[t].pc = "done" /\ th'[t].err = ErrTooBig

C19_TooBigDone ==
  \A t \in Threads :
    (DoneOp(t, "Set") /\ ValueLen(th[t].value) >= TooBig /\ th[t].expiration > 0
     /\ HasDatastore)
      => th[t].err = ErrTooBig

C19_TooBig == []C19_TooBigDone /\ [][C19_TooBigStep]_vars

\* a Set of 1 MiB was stored by the memoryCache and rejected by the
\* datastoreCache after it, which stayed empty
C19_Witness ==
  \E t \in Threads :
    /\ DoneOp(t, "Set") /\ th[t].err = ErrTooBig /\ Len(th[t].log) = 2
    /\ caches[1].kind = "memory" /\ caches[2].kind = "datastore"
    /\ ValueLen(th[t].value) >= TooBig
    /\ ~Holds(caches[2], th[t].key) /\ ~caches[2].connected

\* ---- the mutex of the memoryCache ----
\* the statements between a.m.Lock() and the deferred a.m.Unlock()
LockedPcs ==
  {"set_values", "set_expires", "get_read", "get_check", "get_delete",
   "clean_range", "clean_iter"}

Inside == {t \in Threads : th[t].pc \in LockedPcs}

\* at most one thread is inside the locked section, and it holds the mutex
C20_Mutex ==
  /\ Cardinality(Inside) <= 1
  /\ \A t \in Inside : caches[1].m = t
  /\ Inside = {} => caches[1].m = 0

\* a Get hit returns a value and an expiry that one Set stored together
C20_Pairs ==
  \A i \in 1..Len(Hist) :
    (Hist[i].op = "Get" /\ Hist[i].err = Nil)
      => \E j \in Stores(i) : IsHitOf(Hist[i], Hist[j])

\* every call returns what it returns when the calls run one after the other
\* in the order of their return: Set and Clean nil, Get the unexpired entry
\* of the latest Set of its key, a miss when there is none
C20_Sequential ==
  \A i \in 1..Len(Hist) :
    LET g == Hist[i] IN
    IF g.op = "Get"
      THEN IF Stores(i) = {} THEN IsMiss(g)
           ELSE LET s == Hist[Max(Stores(i))] IN
                IF s.expires < g.at THEN IsMiss(g) ELSE IsHitOf(g, s)
      ELSE g.err = Nil

\* C20: the operations of the memoryCache are atomic under concurrency: at
\* most one thread is inside the locked section, every call returns what a
\* sequential order of the calls returns, and a Get hit returns a value and
\* an expiry written together by one Set.
C20_Atomic == C20_Mutex /\ C20_Pairs /\ C20_Sequential

\* a Set has written its value over the entry of an earlier Set and not yet
\* its expiry, while a Get of the key waits for the mutex
C20_Witness ==
  \E t, u \in Threads :
    /\ th[t].pc = "set_expires"
    /\ th[u].pc = "lock" /\ th[u].op = "Get" /\ th[u].key = th[t].key
    /\ Len(Hist) = 1 /\ Hist[1].op = "Set" /\ Hist[1].key = th[t].key /\ Hist[1].ttl > 0
    /\ Hist[1].value # th[t].value
    /\ caches[1].values[th[t].key] = th[t].value
    /\ caches[1].expires[th[t].key] = Hist[1].expires
    /\ now + th[t].expiration # Hist[1].expires

\* ---- the states of a key in the memoryCache ----
\* the step is one of a Set(k, _, ttl) with ttl > 0 that holds the mutex
StoringStep(k) ==
  \E t \in Threads :
    /\ th'[t] # th[t] /\ th[t].op = "Set" /\ th[t].key = k /\ th[t].expiration > 0
    /\ th[t].pc \in {"set_values", "set_expires"}

\* the step is one of a Get(k) or of a Clean, and the entry of k has expired
EvictingStep(k) ==
  /\ k \in DOMAIN caches[1].expires /\ caches[1].expires[k] < now
  /\ \E t \in Threads :
       /\ th'[t] # th[t]
       /\ \/ th[t].op = "Get" /\ th[t].key = k /\ th[t].pc = "get_delete"
          \/ th[t].op = "Clean" /\ th[t].pc = "clean_iter"

Entered(m, k) == k \notin DOMAIN m /\ k \in DOMAIN m'
Left(m, k) == k \in DOMAIN m /\ k \notin DOMAIN m'
Rewritten(m, k) == k \in DOMAIN m /\ k \in DOMAIN m' /\ m'[k] # m[k]

C21_KeyStep ==
  \A k \in MemKeys :
    LET c == caches[1] IN
    /\ (Entered(c.values, k) \/ Entered(c.expires, k)) => StoringStep(k)
    /\ (Rewritten(c.values, k) \/ Rewritten(c.expires, k)) => StoringStep(k)
    /\ (Left(c.values, k) \/ Left(c.expires, k)) => EvictingStep(k)

\* with the mutex free a key is absent, or present with a value and an expiry
C21_TwoStates ==
  caches[1].m = 0 => \A k \in MemKeys : Absent(caches[1], k) \/ Holds(caches[1], k)

\* C21: a key of the memoryCache is Absent or Present(expiresAt).  It becomes
\* present, or changes its value or expiry, only by a Set with ttl > 0, and
\* becomes absent only when a Get of the key or a Clean finds its expiry
\* before now; a Get hit and a Clean of an unexpired entry change nothing.
C21_KeyStates == []C21_TwoStates /\ [][C21_KeyStep]_vars

\* a key was stored, returned by a Get, kept by a Clean, and is absent after
\* a later Get found it expired
C21_Witness ==
  /\ Len(Hist) = 3
  /\ Hist[1].op = "Set" /\ Hist[1].ttl > 0
  /\ Hist[2].op \in {"Get", "Clean"} /\ Hist[2].err = Nil
  /\ Hist[2].op = "Get" => IsHitOf(Hist[2], Hist[1])
  /\ Hist[2].op = "Clean" => Hist[2].at <= Hist[1].expires
  /\ Hist[3].op = "Get" /\ Hist[3].key = Hist[1].key /\ IsMiss(Hist[3])
  /\ Absent(caches[1], Hist[1].key)

\* ---- the two maps of the memoryCache ----
\* C27: whenever the mutex of the memoryCache is not held, the value map and
\* the expiry map have the same key set, so Get never finds a key in only one
\* of the two maps.
C27_SameKeys ==
  /\ caches[1].m = 0 => DOMAIN caches[1].values = DOMAIN caches[1].expires
  /\ \A t \in Threads : th[t].pc = "get_check" => th[t].okv = th[t].oke

\* with the mutex free the maps hold one key, after both keys were stored and
\* a Get removed the other, expired, from both maps
C27_Witness ==
  /\ caches[1].m = 0 /\ Len(Hist) = 3
  /\ Hist[1].op = "Set" /\ Hist[2].op = "Set" /\ Hist[1].key # Hist[2].key
  /\ Hist[3].op = "Get" /\ IsMiss(Hist[3]) /\ PresentAt(Hist[3])
  /\ Cardinality(DOMAIN caches[1].values) = 1
  /\ DOMAIN caches[1].expires = DOMAIN caches[1].values

\* ---- the expiry test of Get and of Clean ----
\* the key an iteration of Clean's range produces in this step
Produced(t) == (th[t].todo \cap DOMAIN caches[1].expires) \ th'[t].todo

\* C28: Get and Clean of the memoryCache use the same test of expiry: an
\* iteration of Clean removes its key exactly when a Get of the key at that
\* instant would miss and evict it, and leaves the maps as that Get would; it
\* never removes an entry the Get would return.
C28_CleanIter ==
  \A t \in Threads :
    (th[t].pc = "clean_iter" /\ th'[t].pc = "clean_iter" /\ th'[t] # th[t])
      => \A k \in Produced(t) :
           LET get == memoryCacheGet(caches[1], k, now) IN
           /\ (get.err = ErrCacheMiss) <=> Absent(caches'[1], k)
           /\ (get.err = Nil) => Holds(caches'[1], k)
           /\ caches'[1].values = get.cache.values
           /\ caches'[1].expires = get.cache.expires

C28_SamePredicate == [][C28_CleanIter]_vars

\* a Clean removed an expired entry and kept one that a Get still returns
C28_Witness ==
  /\ Len(Hist) = 3 /\ Hist[3].op = "Clean"
  /\ DOMAIN Hist[3].snap[2] = MemKeys
  /\ \E k \in MemKeys :
       /\ DOMAIN caches[1].expires = {k}
       /\ caches[1].expires[k] > Hist[3].at
       /\ memoryCacheGet(caches[1], k, now).err = Nil

\* ---- datastoreCache: the connection, statement by statement ----
\* One datastoreCache (caches[1]) is called by the threads.  client is 0 for
\* a nil *datastore.Client and the number of the client installed otherwise;
\* installed counts the assignments of a.client.  The two versions of the
\* file differ in what a call does with the error of connect.
Versions == {"checks connect", "ignores connect"}

newConn(version) ==
  [kind |-> "datastore", version |-> version, m |-> 0, connected |-> FALSE,
   client |-> 0, installed |-> 0]

ConnIdle ==
  [pc |-> "idle", op |-> "none", err |-> Nil,
   \* history of the call: connect failed in it, and a.connected and
   \* a.client when the call used the client
   failed |-> FALSE, usedConnected |-> TRUE, usedClient |-> 0]

InitConn ==
  /\ caches \in {<<newConn(v)>> : v \in Versions}
  /\ now = StartTime
  /\ calls = 0
  /\ th = [t \in Threads |-> ConnIdle]

\* a thread calls Set (of a storable value, expiration > 0), Get or Clean
ConnCall(t) ==
  /\ th[t].pc \in {"idle", "done"}
  /\ calls < MaxConnCalls
  /\ \E op \in {"Get", "Set", "Clean"} :
       th' = [th EXCEPT ![t] = [ConnIdle EXCEPT !.pc = "lock", !.op = op]]
  /\ calls' = calls + 1
  /\ UNCHANGED <<caches, now>>

\* connect: "a.m.Lock()"
ConnLock(t) ==
  /\ th[t].pc = "lock"
  /\ LockFree(caches[1].m)
  /\ caches' = [caches EXCEPT ![1].m = t]
  /\ th' = [th EXCEPT ![t].pc = "connected"]
  /\ UNCHANGED <<now, calls>>

\* connect: "if a.connected"
AlreadyConnected(c) == c.connected

\* Set, Get, Clean: "if err := a.connect(ctx); err != nil { return err }" in
\* one version of the file, "a.connect(ctx)" in the other
ConnectErrorReturned(c, err) == c.version = "checks connect" /\ err # Nil

\* the call goes on after connect returned err
AfterConnect(t, err) ==
  th' = [th EXCEPT ![t] =
           IF ConnectErrorReturned(caches[1], err)
             THEN [@ EXCEPT !.pc = "done", !.err = err, !.failed = TRUE]
             ELSE [@ EXCEPT !.pc = "use", !.failed = (err # Nil)]]

\* connect: "if a.connected { return nil }"
ConnConnected(t) ==
  /\ th[t].pc = "connected"
  /\ IF AlreadyConnected(caches[1])
       THEN caches' = [caches EXCEPT ![1].m = 0] /\ AfterConnect(t, Nil)
       ELSE UNCHANGED caches /\ th' = [th EXCEPT ![t].pc = "dial"]
  /\ UNCHANGED <<now, calls>>

\* connect: "client, err := datastore.NewClient(...)", "if err != nil { return err }"
ConnDial(t) ==
  /\ th[t].pc = "dial"
  /\ \E ok \in BOOLEAN :
       IF ok THEN UNCHANGED caches /\ th' = [th EXCEPT ![t].pc = "install"]
       ELSE caches' = [caches EXCEPT ![1].m = 0] /\ AfterConnect(t, ErrConnect)
  /\ UNCHANGED <<now, calls>>

\* connect: "a.client = client"
ConnInstall(t) ==
  /\ th[t].pc = "install"
  /\ caches' = [caches EXCEPT ![1].client = caches[1].installed + 1,
                              ![1].installed = @ + 1]
  /\ th' = [th EXCEPT ![t].pc = "mark"]
  /\ UNCHANGED <<now, calls>>

\* connect: "a.connected = true", "return nil"
ConnMark(t) ==
  /\ th[t].pc = "mark"
  /\ caches' = [caches EXCEPT ![1].connected = TRUE, ![1].m = 0]
  /\ AfterConnect(t, Nil)
  /\ UNCHANGED <<now, calls>>

\* Set, Get, Clean: the first call of a.client (Put, Get, GetAll); a nil
\* client is dereferenced and the call panics
ConnUse(t) ==
  /\ th[t].pc = "use"
  /\ \E err \in {Nil, ErrBackend} :
       th' = [th EXCEPT ![t] =
                [@ EXCEPT !.usedConnected = caches[1].connected,
                          !.usedClient = caches[1].client,
                          !.pc = IF caches[1].client = 0 THEN "panic" ELSE "done",
                          !.err = IF caches[1].client = 0 THEN Nil ELSE err]]
  /\ UNCHANGED <<caches, now, calls>>

NextConn ==
  \/ \E t \in Threads : ConnCall(t)
  \/ \E t \in Threads : ConnLock(t)
  \/ \E t \in Threads : ConnConnected(t)
  \/ \E t \in Threads : ConnDial(t)
  \/ \E t \in Threads : ConnInstall(t)
  \/ \E t \in Threads : ConnMark(t)
  \/ \E t \in Threads : ConnUse(t)

SpecConn == InitConn /\ [][NextConn]_vars

\* C30 as stated: in the datastoreCache connected implies a client is
\* installed; at most one client is ever installed; a failed connect leaves
\* connected false; and Set, Get and Clean never use the client while
\* connected is false but return the error of connect.
C30_Connection ==
  LET c == caches[1] IN
  /\ c.connected => c.client # 0
  /\ c.installed <= 1
  /\ (c.m = 0 /\ c.installed = 0) => ~c.connected
  /\ \A t \in Threads :
       /\ th[t].pc # "panic"
       /\ th[t].pc = "done" /\ ~th[t].failed => th[t].usedConnected /\ th[t].usedClient = 1
       /\ th[t].failed => th[t].pc = "done" /\ th[t].err = ErrConnect

\* the version of the file that returns the error of connect
C30_ChecksConnect == caches[1].version = "checks connect" => C30_Connection

\* ---- an expired entry of the datastoreCache ----
\* C29: a Get of a datastoreCache that reads a stored but expired entry
\* deletes it and returns a miss; when the Delete fails it returns the
\* Delete's error and the entry stays, and the combinedCache Get over it
\* returns that error without reading a slower tier.
C29_ExpiredStep ==
  \A t \in Threads :
    LET i == th[t].idx
        e == Last(th'[t].log)
    IN (TierCall(t, "Get") /\ caches[i].kind = "datastore"
        /\ Holds(caches[i], th[t].key) /\ caches[i].expires[th[t].key] < now
        /\ e.err \notin {ErrConnect, ErrBackend})
         => /\ e.err \in {ErrCacheMiss, ErrDelete}
            /\ e.err = ErrCacheMiss => Absent(caches'[i], th[t].key)
            /\ e.err = ErrDelete =>
                 /\ Stored(caches'[i]) = Stored(caches[i])
                 /\ th'[t].pc = "done" /\ th'[t].err = ErrDelete
                 /\ th'[t].rvalue = NoValue /\ th'[t].rexpires = ZeroTime

C29_ExpiredDelete == [][C29_ExpiredStep]_vars

\* a Get stopped at the failed Delete of the expired entry of tier 0 while the
\* slower tier holds the key
C29_Witness ==
  \E t \in Threads :
    /\ DoneOp(t, "Get") /\ th[t].err = ErrDelete /\ Len(th[t].log) = 1
    /\ Len(caches) = 2 /\ caches[1].kind = "datastore"
    /\ Holds(caches[1], th[t].key) /\ Holds(caches[2], th[t].key)

\* ---- two Sets of the combination at once ----
\* a Set of the combination between two of its tier writes
BetweenTiers(t) ==
  /\ th[t].pc = "run" /\ th[t].op = "Set"
  /\ 1 < th[t].idx /\ th[t].idx <= Len(caches)

\* nothing spans the tiers: while a Set is between two tier writes, another
\* caller's Set can take its next tier write
C23_NoCrossTierLock ==
  \A t, u \in Threads :
    (t # u /\ BetweenTiers(t) /\ th[u].pc = "run" /\ th[u].op = "Set")
      => ENABLED SetStep(u)

\* each tier write of a Set of the combination is the tier's own Set: the last
\* writer of a tier wins there, whatever the other tiers hold
C23_TierWrite ==
  \A t \in Threads :
    LET i == th[t].idx
    IN (th[t].op = "Set" /\ TierCall(t, "Set") /\ Last(th'[t].log).err = Nil
        /\ th[t].expiration > 0)
         => /\ Holds(caches'[i], th[t].key)
            /\ caches'[i].values[th[t].key] = th[t].value
            /\ \A j \in 1..Len(caches) : j # i => caches'[j] = caches[j]

\* C23: the tier writes of a Set of the combination are not atomic across the
\* tiers: every tier write takes effect in its tier alone and another
\* caller's Set can write between two of them, so two concurrent Sets of one
\* key with different values can both return success with tier 0 holding one
\* value and tier 1 the other.
C23_NotAtomic == []C23_NoCrossTierLock /\ [][C23_TierWrite]_vars

\* both Sets returned success; tier 0 holds one value and tier 1 the other
C23_Witness ==
  \E t, u \in Threads :
    /\ t # u /\ DoneOp(t, "Set") /\ DoneOp(u, "Set")
    /\ th[t].err = Nil /\ th[u].err = Nil
    /\ th[t].key = th[u].key /\ th[t].value # th[u].value
    /\ Len(caches) = 2 /\ Len(th[t].log) = 2 /\ Len(th[u].log) = 2
    /\ Holds(caches[1], th[t].key) /\ Holds(caches[2], th[t].key)
    /\ caches[1].values[th[t].key] = th[t].value
    /\ caches[2].values[th[t].key] = th[u].value

\* ---- callers racing on a combination of two memoryCaches ----
MaxRaceCalls == 3

RaceKeys == {"k1", "k2"}
RaceValues == {"v1", "v2"}

\* a Set with a positive ttl, as begun by a caller
SetOf(key, value, ttl) == [key |-> key, value |-> value, ttl |-> ttl]

\* the callers of this part also remember the number of their call (seen) and
\* the value settled for its key when it began (after)
RaceIdle == [f \in DOMAIN IdleThread \cup {"after", "seen"} |->
               IF f = "after" THEN NoValue
               ELSE IF f = "seen" THEN 0
               ELSE IdleThread[f]]

\* the value of key settled when a call begins: some Set of it returned
\* success, no Set of it is in flight, and the returned Sets agree
Settled(key) ==
  LET done == {u \in Threads : /\ DoneOp(u, "Set") /\ th[u].key = key
                               /\ th[u].err = Nil /\ th[u].expiration > 0}
      busy == {u \in Threads : /\ th[u].pc = "run" /\ th[u].op = "Set"
                               /\ th[u].key = key}
  IN IF done # {} /\ busy = {} /\ \A u, w \in done : th[u].value = th[w].value
       THEN th[CHOOSE u \in done : TRUE].value
       ELSE NoValue

\* Combine(Memory(), Memory())
InitRace ==
  /\ caches = <<newCache("memory"), newCache("memory")>>
  /\ now = StartTime
  /\ calls = [n |-> 0, sets |-> {}]
  /\ th = [t \in Threads |-> RaceIdle]

\* a caller enters combinedCache.Get or Set
RaceCall(t) ==
  /\ th[t].pc \in {"idle", "done"}
  /\ calls.n < MaxRaceCalls
  /\ \E op \in {"Get", "Set"}, key \in Keys, value \in RaceValues, ttl \in TTLs :
       /\ op # "Set" => (value = "v1" /\ ttl = 0)
       /\ th' = [th EXCEPT ![t] =
                   [RaceIdle EXCEPT !.pc = "run", !.op = op, !.key = key,
                      !.value = IF op = "Set" THEN value ELSE NoValue,
                      !.expiration = ttl, !.idx = 1,
                      !.after = IF op = "Get" THEN Settled(key) ELSE NoValue,
                      !.seen = calls.n + 1]]
       /\ calls' = [n |-> calls.n + 1,
                    sets |-> IF op = "Set" /\ ttl > 0
                               THEN calls.sets \cup {SetOf(key, value, ttl)}
                               ELSE calls.sets]
  /\ UNCHANGED <<caches, now>>

\* the slower tier is a Cache of its own: its owner has Set a key on it before
\* the callers of the combination arrive
RaceDirectSet ==
  /\ calls.n = 0 /\ calls.sets = {}
  /\ now = StartTime
  /\ \E key \in RaceKeys, value \in RaceValues, ttl \in 1..MaxTTL :
       /\ caches' = [caches EXCEPT ![2] = memoryCacheSet(@, key, value, ttl, now).cache]
       /\ calls' = [calls EXCEPT !.sets = @ \cup {SetOf(key, value, ttl)}]
  /\ UNCHANGED <<now, th>>

NextRace ==
  \/ \E t \in Threads : RaceCall(t)
  \/ \E t \in Threads : SetStep(t)
  \/ \E t \in Threads : GetStep(t)
  \/ \E t \in Threads : GetTTL(t)
  \/ \E t \in Threads : GetRefill(t)
  \/ RaceDirectSet
  \/ Tick

SpecRace == InitRace /\ [][NextRace]_vars

\* ---- two Gets of the combination at once ----
\* a Get does its own work: after a miss of a tier it reads the next tier
\* itself, after a hit below tier 0 it goes on to its own refill, and its
\* refill writes the tier whatever the tier holds by then
C22_OwnStep ==
  \A t \in Threads :
    LET i == th[t].idx
        e == Last(th'[t].log)
    IN /\ (TierCall(t, "Get") /\ e.err = ErrCacheMiss /\ i < Len(caches))
            => th'[t].pc = "run" /\ th'[t].idx = i + 1
       /\ (TierCall(t, "Get") /\ e.err = Nil /\ i > 1)
            => th'[t].pc = "ttl" /\ th'[t].idx = i - 1
       /\ (th[t].op = "Get" /\ TierCall(t, "Set") /\ th[t].ttl > 0)
            => /\ e.err = Nil /\ Holds(caches'[i], th[t].key)
               /\ caches'[i].values[th[t].key] = th[t].rvalue
               /\ caches'[i].expires[th[t].key] = now + th[t].ttl

\* every Get that missed tier 0 and hit tier 1 has its own read of tier 1 and
\* its own refill of tier 0 behind it when it returns
C22_OwnWork ==
  \A t \in Threads :
    (DoneOp(t, "Get") /\ Len(th[t].log) >= 2
     /\ th[t].log[1].err = ErrCacheMiss /\ th[t].log[2].err = Nil)
      => /\ Len(th[t].log) = 3
         /\ th[t].log[3].op = "Set" /\ th[t].log[3].tier = 1

\* C22: there is no request coalescing: of two concurrent Gets of one key
\* that both miss tier 0, each reads the lower tier itself and each writes
\* its own refill into tier 0; the refill writes are as many as those Gets.
C22_NoCoalescing == []C22_OwnWork /\ [][C22_OwnStep]_vars

\* both callers' Gets missed tier 0, hit tier 1 and wrote tier 0
C22_Witness ==
  /\ \A t \in Threads :
       /\ DoneOp(t, "Get") /\ th[t].key = "k1" /\ Len(th[t].log) = 3
       /\ th[t].log[1].err = ErrCacheMiss /\ th[t].log[2].err = Nil
       /\ th[t].log[3].op = "Set" /\ th[t].log[3].ttl > 0
       /\ th[t].log[3].err = Nil
  /\ \A t, u \in Threads : th[t].log[2].expires = th[u].log[2].expires

\* ---- a Get after a Set returned ----
\* C25: read-your-writes on the combination: once a Set(k, v2, ttl > 0)
\* returned success, a Get(k) that begins afterwards (no Set of k in flight
\* when it begins, no other call begun since) and hits returns v2.
C25_Original ==
  \A t \in Threads :
    (/\ DoneOp(t, "Get") /\ th[t].after # NoValue /\ th[t].err = Nil
     /\ \A u \in Threads \ {t} : th[u].seen < th[t].seen)
      => th[t].rvalue = th[t].after

MaxAppCalls == 4

\* type Item struct { Value []byte; Expires time.Time // Zero to never expire. }
Item(value, expires) == [Value |-> value, Expires |-> expires]

\* time.Time.IsZero
IsZero(t) == t = ZeroTime

\* set: "item := Item{Value: value}; if expiration > 0 { item.Expires =
\* time.Now().Add(expiration) }"
SetItemOf(value, expiration, t) ==
  IF expiration > 0 THEN Item(value, t + expiration) ELSE Item(value, ZeroTime)

\* Appcache.GC: "if item.Expires.Before(time.Now()) { delete(a.items, key) }"
AppcacheGC(items, t) ==
  [k \in {x \in DOMAIN items : ~Before(items[x].Expires, t)} |-> items[k]]

\* Appcache.SetItem: "a.items[key] = item", then "a.GC(c)"
AppcacheSetItem(items, key, item, t) == AppcacheGC(Put(items, key, item), t)

\* Appcache.GetItem
AppcacheGetItem(items, key, t) ==
  IF key \notin DOMAIN items
    THEN [items |-> items, item |-> Item(NoValue, ZeroTime), err |-> ErrCacheMiss]
  ELSE IF ~IsZero(items[key].Expires) /\ Before(items[key].Expires, t)
    THEN [items |-> Delete(items, key), item |-> Item(NoValue, ZeroTime),
          err |-> ErrCacheMiss]
  ELSE [items |-> items, item |-> items[key], err |-> Nil]

\* the call that returned last
AppCall(op, key, item, err) == [op |-> op, key |-> key, item |-> item, err |-> err]

\* NewAppcache; kept is the set of keys whose last SetItem stored a zero
\* Expires and that were not deleted since
InitApp ==
  /\ caches = <<[kind |-> "appcache", items |-> EmptyMap]>>
  /\ now = StartTime
  /\ calls = [n |-> 0, kept |-> {}]
  /\ th = AppCall("none", "k1", Item(NoValue, ZeroTime), Nil)

Counted(kept) == [n |-> calls.n + 1, kept |-> kept]

\* Appcache.Set: set(a, c, key, value, expiration), which calls a.SetItem
AppSet ==
  /\ calls.n < MaxAppCalls
  /\ \E key \in MemKeys, value \in RaceValues, expiration \in MemTTLs :
       LET item == SetItemOf(value, expiration, now)
       IN /\ caches' = [caches EXCEPT ![1].items = AppcacheSetItem(@, key, item, now)]
          /\ th' = AppCall("Set", key, item, Nil)
          /\ calls' = Counted(IF IsZero(item.Expires) THEN calls.kept \cup {key}
                              ELSE calls.kept \ {key})
  /\ UNCHANGED now

AppGetItem ==
  /\ calls.n < MaxAppCalls
  /\ \E key \in MemKeys :
       LET res == AppcacheGetItem(caches[1].items, key, now)
       IN /\ caches' = [caches EXCEPT ![1].items = res.items]
          /\ th' = AppCall("GetItem", key, res.item, res.err)
  /\ calls' = Counted(calls.kept)
  /\ UNCHANGED now

AppGC ==
  /\ calls.n < MaxAppCalls
  /\ caches' = [caches EXCEPT ![1].items = AppcacheGC(@, now)]
  /\ th' = AppCall("GC", "k1", Item(NoValue, ZeroTime), Nil)
  /\ calls' = Counted(calls.kept)
  /\ UNCHANGED now

\* Appcache.Delete: "delete(a.items, key)"
AppDelete ==
  /\ calls.n < MaxAppCalls
  /\ \E key \in MemKeys :
       /\ caches' = [caches EXCEPT ![1].items = Delete(@, key)]
       /\ th' = AppCall("Delete", key, Item(NoValue, ZeroTime), Nil)
       /\ calls' = Counted(calls.kept \ {key})
  /\ UNCHANGED now

\* Appcache.Flush: "a.items = make(map[string]Item)"
AppFlush ==
  /\ calls.n < MaxAppCalls
  /\ caches' = [caches EXCEPT ![1].items = EmptyMap]
  /\ th' = AppCall("Flush", "k1", Item(NoValue, ZeroTime), Nil)
  /\ calls' = Counted({})
  /\ UNCHANGED now

NextApp == AppSet \/ AppGetItem \/ AppGC \/ AppDelete \/ AppFlush \/ Tick

SpecApp == InitApp /\ [][NextApp]_vars

\* C24: in the Item variant an item stored with a zero Expires (Set with
\* expiration <= 0) never expires: in the Appcache it is held after SetItem
\* returned and after every GC, and GetItem of its key returns it.
C24_ZeroNeverExpires ==
  \A k \in calls.kept :
    /\ k \in DOMAIN caches[1].items /\ IsZero(caches[1].items[k].Expires)
    /\ (th.op = "GetItem" /\ th.key = k) => (th.err = Nil /\ IsZero(th.item.Expires))

\* ---- progress of the callers of a combination of memoryCaches ----
MaxLiveTiers == 2
MaxLiveCalls == 3

\* the tiers whose mutex the caller holds
Holding(t) == {i \in 1..Len(caches) : caches[i].m = t}

\* the caller's next statement is a call of tier idx that takes the tier's
\* mutex: a Get, a Clean, or a Set past "if expiration <= 0 { return nil }"
NeedsLock(t) ==
  LET r == th[t] IN
  /\ r.pc \in {"run", "refill"}
  /\ r.idx <= Len(caches)
  /\ (r.pc = "run" /\ r.op = "Set") => ~NoOpSet(r.expiration)
  /\ r.pc = "refill" => ~NoOpSet(r.ttl)

\* a tier call that returns with the mutex held after a miss
ReleasesOnHit(e) == e.err = Nil

\* Set, Get, Clean: "defer a.m.Unlock()" runs on every return of the call e
Releases(e) == TRUE

\* newCombinedCache over memoryCaches
InitLive ==
  /\ caches \in UNION {[1..n -> {newCache("memory")}] : n \in 0..MaxLiveTiers}
  /\ now = StartTime
  /\ calls = 0
  /\ th = [t \in Threads |-> IdleThread]

\* a caller whose last call returned enters combinedCache.Get, Set or Clean
LiveCall(t) ==
  /\ Holding(t) = {}
  /\ th[t].pc \in {"idle", "done"}
  /\ calls < MaxLiveCalls
  /\ \E op \in {"Get", "Set", "Clean"}, ttl \in TTLs :
       /\ op # "Set" => ttl = 0
       /\ th' = [th EXCEPT ![t] =
                   [IdleThread EXCEPT !.pc = "run", !.op = op,
                      !.value = IF op = "Set" THEN "v1" ELSE NoValue,
                      !.expiration = ttl, !.idx = 1]]
  /\ calls' = calls + 1
  /\ UNCHANGED <<caches, now>>

\* memoryCache.Set, Get, Clean: "a.m.Lock()"
LiveLock(t) ==
  /\ NeedsLock(t)
  /\ Holding(t) = {}
  /\ LockFree(caches[th[t].idx].m)
  /\ caches' = [caches EXCEPT ![th[t].idx].m = t]
  /\ UNCHANGED <<now, th, calls>>

\* the body of the tier call, under the mutex where the call takes it, and the
\* statements of the combination around it
LiveStep(t) ==
  /\ IF NeedsLock(t) THEN caches[th[t].idx].m = t ELSE Holding(t) = {}
  /\ \/ SetStep(t)
     \/ GetStep(t)
     \/ GetTTL(t)
     \/ GetRefill(t)
     \/ CleanStep(t)

\* the deferred Unlock of the tier call that has just run its body
LiveUnlock(t) ==
  /\ \E i \in Holding(t) :
       /\ ~(NeedsLock(t) /\ th[t].idx = i)
       /\ Releases(Last(th[t].log))
       /\ caches' = [caches EXCEPT ![i] = Unlocked(@)]
  /\ UNCHANGED <<now, th, calls>>

NextLive ==
  \/ \E t \in Threads : LiveCall(t)
  \/ \E t \in Threads : LiveLock(t)
  \/ \E t \in Threads : LiveStep(t)
  \/ \E t \in Threads : LiveUnlock(t)
  \/ Tick

\* the scheduler runs every caller that stays able to run, a caller whose
\* Lock stays possible included
FairLive ==
  \A t \in Threads :
    /\ WF_vars(LiveStep(t))
    /\ WF_vars(LiveUnlock(t))
    /\ WF_vars(LiveLock(t))

SpecLive == InitLive /\ [][NextLive]_vars /\ FairLive

InCall(t) == th[t].pc \in {"run", "ttl", "refill"}

\* the call returned: the combination returned and every tier call's deferred
\* Unlock ran
HasReturned(t) == th[t].pc = "done" /\ Holding(t) = {}

\* the calls of tier i by the call of t
TierCalls(t, op, i) ==
  {n \in DOMAIN th[t].log : th[t].log[n].op = op /\ th[t].log[n].tier = i}

\* a Get of the combination calls each tier's Get at most once and each
\* tier's Set at most once; a caller holds at most one mutex, and only the
\* mutex of a tier whose call it is in
C31_Bounded ==
  \A t \in Threads :
    /\ th[t].op = "Get" =>
         \A i \in 1..Len(caches) :
           /\ Cardinality(TierCalls(t, "Get", i)) <= 1
           /\ Cardinality(TierCalls(t, "Set", i)) <= 1
    /\ Cardinality(Holding(t)) <= 1
    /\ th[t].pc = "idle" => Holding(t) = {}

\* every call of the combination in progress returns, with no mutex held
C31_Returns == \A t \in Threads : InCall(t) ~> HasReturned(t)

\* C31: progress: every memoryCache Set, Get and Clean releases the mutex on
\* every return path, and a Get of the combination over N tiers calls each
\* tier's Get at most once and each tier's Set at most once; so with
\* concurrent callers and a fair scheduler every call of a combination of
\* memoryCaches returns.
C31_Progress == []C31_Bounded /\ C31_Returns

\* a Get that refilled tier 0 has returned with no mutex held while the other
\* caller, in a call of its own, holds the mutex of a tier
C31_Witness ==
  \E t, u \in Threads :
    /\ HasReturned(t) /\ th[t].op = "Get" /\ Len(th[t].log) = 3
    /\ th[t].log[3].err = Nil /\ th[t].log[3].ttl > 0
    /\ InCall(u) /\ Holding(u) # {}

====
